---- MODULE Spec2Model ----
(***************************************************************************)
(* EduNiti AI recommendation engine (apps/ai-engine/main.py).              *)
(*                                                                         *)
(* The service is one FastAPI application served by a single event loop.   *)
(* Every handler is an "async def" without an await, so a handler runs to  *)
(* completion once it is started: a handler is one atomic action here, and *)
(* concurrency is the order in which requests arrive.                      *)
(*                                                                         *)
(* Strings are TLA+ strings; lower() and the "in" substring test are       *)
(* computed character by character.  Floats are modelled as rationals in   *)
(* lowest terms <<num, den>>.  For at most 4 interests every quotient       *)
(* count/len and every sum of two of them is compared by IEEE doubles       *)
(* exactly as by the rationals (the first disagreement on a tie is at       *)
(* 5 interests, 1/5 + 2/5 # 3/5 + 0), so MaxInterests stays below 5.        *)
(***************************************************************************)
EXTENDS Integers, Sequences, FiniteSets, TLC

VARIABLES
    career_pathways,  \* recommendation_engine.career_pathways (the catalog list)
    colleges,         \* recommendation_engine.colleges (the catalog list)
    inflight,         \* the request being served, or NoRequest
    response,         \* the HTTP response of the request in flight, or NoResponse
    now,              \* the clock read by datetime.now()
    pinned            \* an earlier /recommendations exchange kept for comparison

vars == <<career_pathways, colleges, inflight, response, now, pinned>>

----------------------------------------------------------------------------
(* Bounds of the model *)

\* longest interest list of a request
MaxInterests == 2
\* last reading of the clock
MaxClock == 2
\* longest interest list of a request in the repeated-request specification
MaxProbeInterests == 1

NoRequest == [endpoint |-> "none"]
NoResponse == [status |-> 0]
NoPin == [pinned |-> FALSE]

\* F applied to the value of v, with v evaluated once (a local variable
\* assigned once and read many times)
WithValue(v, F(_)) == CHOOSE r \in {F(x) : x \in {v}} : TRUE

----------------------------------------------------------------------------
(* Strings: str.lower() and the substring test "a in b" *)

UpperLetters == "ABCDEFGHIJKLMNOPQRSTUVWXYZ"
LowerLetters == "abcdefghijklmnopqrstuvwxyz"

CharAt(s, i) == SubSeq(s, i, i)

\* the upper-case letter c as lower case
LowerOf ==
    [c \in {CharAt(UpperLetters, i) : i \in 1..26} |->
        CharAt(LowerLetters, CHOOSE i \in 1..26 : CharAt(UpperLetters, i) = c)]

LowerChar(c) == IF c \in DOMAIN LowerOf THEN LowerOf[c] ELSE c

RECURSIVE Lower(_)
Lower(s) ==
    IF Len(s) = 0 THEN ""
    ELSE LowerChar(CharAt(s, 1)) \o Lower(SubSeq(s, 2, Len(s)))

\* Python's  sub in s
Contains(s, sub) ==
    \E i \in 0..(Len(s) - Len(sub)) : SubSeq(s, i + 1, i + Len(sub)) = sub

----------------------------------------------------------------------------
(* Floats as rationals in lowest terms *)

RECURSIVE GCD(_, _)
GCD(a, b) == IF b = 0 THEN a ELSE GCD(b, a % b)

Rat(n, d) == IF n = 0 THEN <<0, 1>> ELSE <<n \div GCD(n, d), d \div GCD(n, d)>>
Zero == <<0, 1>>
One == <<1, 1>>
RatAdd(x, y) == Rat(x[1] * y[2] + y[1] * x[2], x[2] * y[2])
RatLess(x, y) == x[1] * y[2] < y[1] * x[2]
RatLeq(x, y) == x[1] * y[2] <= y[1] * x[2]

----------------------------------------------------------------------------
(* The static catalog *)

SAMPLE_CAREER_PATHWAYS == <<
    [id |-> "1", title |-> "Software Engineer", stream |-> "engineering",
     education_requirements |-> <<"B.Tech Computer Science", "M.Tech (Optional)">>,
     skills_required |-> <<"Programming", "Problem Solving", "Mathematics">>,
     job_opportunities |-> <<"Software Developer", "System Analyst", "Tech Lead">>,
     salary_range |-> [min |-> 400000, max |-> 2000000, currency |-> "INR"],
     growth_prospects |-> "High demand in IT sector with excellent growth opportunities",
     related_exams |-> <<"GATE", "JEE Advanced", "Company-specific tests">>],
    [id |-> "2", title |-> "Doctor", stream |-> "medical",
     education_requirements |-> <<"MBBS", "MD/MS (Specialization)">>,
     skills_required |-> <<"Medical Knowledge", "Empathy", "Problem Solving">>,
     job_opportunities |-> <<"General Practitioner", "Specialist", "Surgeon">>,
     salary_range |-> [min |-> 600000, max |-> 3000000, currency |-> "INR"],
     growth_prospects |-> "Stable career with high social respect and good earning potential",
     related_exams |-> <<"NEET", "AIIMS", "JIPMER">>],
    [id |-> "3", title |-> "Data Scientist", stream |-> "science",
     education_requirements |-> <<"B.Sc Mathematics/Statistics", "M.Sc/M.Tech Data Science">>,
     skills_required |-> <<"Statistics", "Programming", "Machine Learning">>,
     job_opportunities |-> <<"Data Analyst", "ML Engineer", "Research Scientist">>,
     salary_range |-> [min |-> 500000, max |-> 2500000, currency |-> "INR"],
     growth_prospects |-> "High demand in AI/ML field with excellent career prospects",
     related_exams |-> <<"GATE", "GRE", "Company-specific tests">>],
    [id |-> "4", title |-> "Civil Engineer", stream |-> "engineering",
     education_requirements |-> <<"B.Tech Civil Engineering", "M.Tech (Optional)">>,
     skills_required |-> <<"Mathematics", "Physics", "Design Skills">>,
     job_opportunities |-> <<"Site Engineer", "Project Manager", "Consultant">>,
     salary_range |-> [min |-> 300000, max |-> 1500000, currency |-> "INR"],
     growth_prospects |-> "Good opportunities in infrastructure development",
     related_exams |-> <<"GATE", "JEE Advanced", "State Engineering Exams">>],
    [id |-> "5", title |-> "Teacher/Professor", stream |-> "arts",
     education_requirements |-> <<"B.Ed", "M.A/M.Sc", "Ph.D (For Professor)">>,
     skills_required |-> <<"Subject Knowledge", "Communication", "Patience">>,
     job_opportunities |-> <<"School Teacher", "College Professor", "Educational Consultant">>,
     salary_range |-> [min |-> 200000, max |-> 1200000, currency |-> "INR"],
     growth_prospects |-> "Stable career with good work-life balance",
     related_exams |-> <<"CTET", "NET", "State Teacher Exams">>]
>>

SAMPLE_COLLEGES == <<
    [id |-> "1", name |-> "Delhi University", type |-> "government",
     location |-> [state |-> "Delhi", city |-> "New Delhi"],
     programs |-> <<"Arts", "Science", "Commerce">>,
     cut_off_data |-> [arts |-> 85, science |-> 90, commerce |-> 88],
     fees |-> [annual |-> 15000, currency |-> "INR"],
     facilities |-> <<"Hostel", "Library", "Sports", "Labs">>],
    [id |-> "2", name |-> "IIT Delhi", type |-> "government",
     location |-> [state |-> "Delhi", city |-> "New Delhi"],
     programs |-> <<"Engineering", "Technology">>,
     cut_off_data |-> [engineering |-> 95],
     fees |-> [annual |-> 200000, currency |-> "INR"],
     facilities |-> <<"Hostel", "Library", "Sports", "Labs", "Research Centers">>]
>>

----------------------------------------------------------------------------
(* RecommendationEngine *)

\* __init__: the engine's two attributes are the module-level lists themselves
RecommendationEngine(pathways, colls) ==
    [career_pathways |-> pathways, colleges |-> colls]

\* Mutant of interest_categories: "physics" added to the technical keywords.
interest_categories_physics == <<
    [category |-> "technical",
     keywords |-> <<"programming", "mathematics", "science", "technology", "computer",
                    "physics">>],
    [category |-> "creative",
     keywords |-> <<"art", "design", "music", "writing", "photography">>],
    [category |-> "social",
     keywords |-> <<"leadership", "communication", "public speaking", "teamwork">>],
    [category |-> "analytical",
     keywords |-> <<"research", "problem solving", "data analysis", "statistics">>],
    [category |-> "practical",
     keywords |-> <<"hands-on", "mechanical", "construction", "engineering">>]
>>

\* the dict literal of analyze_user_interests, in insertion order
interest_categories == <<
    [category |-> "technical",
     keywords |-> <<"programming", "mathematics", "science", "technology", "computer">>],
    [category |-> "creative",
     keywords |-> <<"art", "design", "music", "writing", "photography">>],
    [category |-> "social",
     keywords |-> <<"leadership", "communication", "public speaking", "teamwork">>],
    [category |-> "analytical",
     keywords |-> <<"research", "problem solving", "data analysis", "statistics">>],
    [category |-> "practical",
     keywords |-> <<"hands-on", "mechanical", "construction", "engineering">>]
>>

Categories == {interest_categories[i].category : i \in 1..Len(interest_categories)}

\* Mutant of InterestMatchesKeywords: the interest is not lower-cased.
InterestMatchesKeywords_cased(interest, keywords) ==
    \E k \in 1..Len(keywords) : Contains(interest, keywords[k])

\* any(keyword in interest.lower() for keyword in keywords)
InterestMatchesKeywords(interest, keywords) ==
    WithValue(Lower(interest), LAMBDA lowered :
        \E k \in 1..Len(keywords) : Contains(lowered, keywords[k]))

\* sum(1 for interest in interests if any(...))
RECURSIVE CountMatching(_, _)
CountMatching(interests, keywords) ==
    IF Len(interests) = 0 THEN 0
    ELSE (IF InterestMatchesKeywords(Head(interests), keywords) THEN 1 ELSE 0)
         + CountMatching(Tail(interests), keywords)

\* scores[category] = score / len(interests) if interests else 0
analyze_user_interests(interests) ==
    [c \in Categories |->
        LET entry == CHOOSE i \in 1..Len(interest_categories) :
                         interest_categories[i].category = c
            score == CountMatching(interests, interest_categories[entry].keywords)
        IN  IF Len(interests) > 0 THEN Rat(score, Len(interests)) ELSE Zero]

\* interest_scores.get(name, 0)
ScoreGet(scores, name) == IF name \in DOMAIN scores THEN scores[name] ELSE Zero

\* the dict literal stream_scores, in insertion order
stream_scores(interest_scores) == <<
    [stream |-> "science",
     score |-> RatAdd(ScoreGet(interest_scores, "technical"), ScoreGet(interest_scores, "analytical"))],
    [stream |-> "engineering",
     score |-> RatAdd(ScoreGet(interest_scores, "technical"), ScoreGet(interest_scores, "practical"))],
    [stream |-> "medical",
     score |-> RatAdd(ScoreGet(interest_scores, "analytical"), ScoreGet(interest_scores, "social"))],
    [stream |-> "arts",
     score |-> RatAdd(ScoreGet(interest_scores, "creative"), ScoreGet(interest_scores, "social"))],
    [stream |-> "commerce",
     score |-> RatAdd(ScoreGet(interest_scores, "analytical"), ScoreGet(interest_scores, "social"))]
>>

\* Mutant of SortedPosition: reverse=True forgotten, the sort is ascending.
SortedPosition_ascending(keys, i) ==
    Cardinality({j \in 1..Len(keys) :
                    RatLess(keys[j], keys[i]) \/ (j < i /\ keys[j] = keys[i])}) + 1

\* Mutant of SortedPosition: an ascending sort reversed afterwards, which puts
\* equal keys in reverse order.
SortedPosition_reversed(keys, i) ==
    Cardinality({j \in 1..Len(keys) :
                    RatLess(keys[i], keys[j]) \/ (j > i /\ keys[j] = keys[i])}) + 1

\* Position of element i after a stable descending sort of keys: behind every
\* larger key and behind the equal keys that come before it.
SortedPosition(keys, i) ==
    Cardinality({j \in 1..Len(keys) :
                    RatLess(keys[i], keys[j]) \/ (j < i /\ keys[j] = keys[i])}) + 1

\* sorted(items, key=..., reverse=True) and list.sort(key=..., reverse=True);
\* keys[i] is the key of items[i]
sorted_reverse(items, keys) ==
    WithValue(<<items, keys>>, LAMBDA v :
        [p \in 1..Len(v[1]) |->
            v[1][CHOOSE i \in 1..Len(v[1]) : SortedPosition(v[2], i) = p]])

\* seq[:n]
Take(seq, n) == SubSeq(seq, 1, IF Len(seq) < n THEN Len(seq) ELSE n)

\* ', '.join(parts)
RECURSIVE Join(_, _)
Join(parts, sep) ==
    IF Len(parts) = 0 THEN ""
    ELSE IF Len(parts) = 1 THEN parts[1]
    ELSE parts[1] \o sep \o Join(Tail(parts), sep)

\* the recommendation built from one (stream, score) item of sorted_streams
StreamRecommendation(item, user_profile) ==
    [stream |-> item.stream,
     confidence_score |-> item.score,
     reasoning |-> "Based on your interests in "
                   \o Join(Take(user_profile.interests, 3), ", ")
                   \o ", " \o item.stream
                   \o " stream aligns well with your profile."]

get_stream_recommendation(user_profile) ==
    WithValue(analyze_user_interests(user_profile.interests), LAMBDA interest_scores :
    WithValue(stream_scores(interest_scores), LAMBDA scores :
    WithValue(sorted_reverse(scores, [i \in 1..Len(scores) |-> scores[i].score]),
              LAMBDA sorted_streams :
        LET top == Take(sorted_streams, 3)
        IN  [i \in 1..Len(top) |-> StreamRecommendation(top[i], user_profile)])))

\* Mutant of SkillMatchesInterests: the containment test the other way round.
SkillMatchesInterests_swapped(skill, interests) ==
    \E k \in 1..Len(interests) : Contains(Lower(interests[k]), Lower(skill))

\* any(interest.lower() in skill.lower() for interest in user_profile.interests)
SkillMatchesInterests(skill, interests) ==
    WithValue(Lower(skill), LAMBDA lowered :
        \E k \in 1..Len(interests) : Contains(lowered, Lower(interests[k])))

RECURSIVE CountSkills(_, _)
CountSkills(skills, interests) ==
    IF Len(skills) = 0 THEN 0
    ELSE (IF SkillMatchesInterests(Head(skills), interests) THEN 1 ELSE 0)
         + CountSkills(Tail(skills), interests)

\* {**career, "match_score": ...}: a new dict, the catalog record is not touched
ScoredCareer(career, interests) ==
    LET skills == career.skills_required
        score == CountSkills(skills, interests)
    IN  [f \in (DOMAIN career) \cup {"match_score"} |->
            IF f = "match_score"
            THEN (IF Len(skills) > 0 THEN Rat(score, Len(skills)) ELSE Zero)
            ELSE career[f]]

\* Mutant of get_career_recommendations: match_score is stored in the catalog
\* record itself (career["match_score"] = ...) and the record is returned.
get_career_recommendations_inplace(self, user_profile) ==
    LET recommended_stream == get_stream_recommendation(user_profile)[1].stream
        Scored(career) ==
            IF career.stream = recommended_stream
            THEN ScoredCareer(career, user_profile.interests)
            ELSE career
        catalog == [i \in 1..Len(self.career_pathways) |-> Scored(self.career_pathways[i])]
        IsRelevant(career) == career.stream = recommended_stream
        relevant_careers == SelectSeq(catalog, IsRelevant)
        sorted_careers ==
            sorted_reverse(relevant_careers,
                [i \in 1..Len(relevant_careers) |-> relevant_careers[i].match_score])
    IN  [ret |-> Take(sorted_careers, 3),
         self |-> [self EXCEPT !.career_pathways = catalog]]

\* Mutant of get_career_recommendations: the catalog list itself is filtered
\* (the pathways of other streams are removed from it).
get_career_recommendations_filtering(self, user_profile) ==
    LET recommended_stream == get_stream_recommendation(user_profile)[1].stream
        IsRelevant(career) == career.stream = recommended_stream
        relevant_careers == SelectSeq(self.career_pathways, IsRelevant)
        scored_careers ==
            [i \in 1..Len(relevant_careers) |->
                ScoredCareer(relevant_careers[i], user_profile.interests)]
        sorted_careers ==
            sorted_reverse(scored_careers,
                [i \in 1..Len(scored_careers) |-> scored_careers[i].match_score])
    IN  [ret |-> Take(sorted_careers, 3),
         self |-> [self EXCEPT !.career_pathways = relevant_careers]]

\* Returns the result list and the engine's attributes as the call leaves them.
get_career_recommendations(self, user_profile) ==
    WithValue(get_stream_recommendation(user_profile), LAMBDA stream_rec :
        LET recommended_stream ==
                IF Len(stream_rec) > 0 THEN stream_rec[1].stream ELSE "science"
            IsRelevant(career) == career.stream = recommended_stream
            relevant_careers == SelectSeq(self.career_pathways, IsRelevant)
            scored_careers ==
                [i \in 1..Len(relevant_careers) |->
                    ScoredCareer(relevant_careers[i], user_profile.interests)]
            sorted_careers ==
                sorted_reverse(scored_careers,
                    [i \in 1..Len(scored_careers) |-> scored_careers[i].match_score])
        IN  [ret |-> Take(sorted_careers, 3), self |-> self])

\* user_profile.location.get(key, "")
LocationGet(location, key) ==
    IF key \in DOMAIN location THEN location[key] ELSE ""

\* Mutant of TopColleges: the fallback keeps one college.
TopColleges_one(colls) == Take(colls, 1)

\* self.colleges[:3] of the fallback
TopColleges(colls) == Take(colls, 3)

\* Returns the result list and the engine's attributes as the call leaves them.
get_college_recommendations(self, user_profile) ==
    LET user_state == LocationGet(user_profile.location, "state")
        user_city == LocationGet(user_profile.location, "city")
        IsLocal(college) ==
            \/ college.location.state = user_state
            \/ college.location.city = user_city
        relevant_colleges == SelectSeq(self.colleges, IsLocal)
    IN  [ret |-> IF Len(relevant_colleges) = 0
                 THEN TopColleges(self.colleges)
                 ELSE relevant_colleges,
         self |-> self]

\* Mutant of ConfidenceOf: the two values exchanged.
ConfidenceOf_swapped(recommendations) ==
    IF Len(recommendations) > 0 THEN Rat(3, 10) ELSE Rat(8, 10)

\* confidence_score = 0.8 if recommendations else 0.3
ConfidenceOf(recommendations) ==
    IF Len(recommendations) > 0 THEN Rat(8, 10) ELSE Rat(3, 10)

\* raise HTTPException(status_code=..., detail=...)
HTTPException(status_code, detail) ==
    [status_code |-> status_code, detail |-> detail]

RecommendationResponse(recommendations, reasoning, clock) ==
    [recommendations |-> recommendations,
     confidence_score |-> ConfidenceOf(recommendations),
     reasoning |-> reasoning,
     generated_at |-> clock]

\* Returns either the response or the exception raised, with the engine's
\* attributes as the call leaves them.
generate_recommendations(self, request, clock) ==
    LET user_profile == request.user_profile
        type == request.recommendation_type
    IN  IF type = "stream" THEN
            [raised |-> FALSE,
             ret |-> RecommendationResponse(
                        get_stream_recommendation(user_profile),
                        "Based on your interests and class level ("
                            \o user_profile.class_level
                            \o "), we recommend these streams.",
                        clock),
             self |-> self]
        ELSE IF type = "career" THEN
            LET out == get_career_recommendations(self, user_profile)
            IN  [raised |-> FALSE,
                 ret |-> RecommendationResponse(
                            out.ret,
                            "Based on your profile and interests, these career paths align with your strengths.",
                            clock),
                 self |-> out.self]
        ELSE IF type = "college" THEN
            LET out == get_college_recommendations(self, user_profile)
            IN  [raised |-> FALSE,
                 ret |-> RecommendationResponse(
                            out.ret,
                            "Based on your location and academic profile, these colleges are suitable for you.",
                            clock),
                 self |-> out.self]
        ELSE
            [raised |-> TRUE,
             exc |-> HTTPException(400, "Invalid recommendation type"),
             self |-> self]

----------------------------------------------------------------------------
(* Requests the clients send *)

\* all sequences over S of length at most n
SeqsUpTo(S, n) == UNION {[1..k -> S] : k \in 0..n}

\* interest strings: a technical keyword, a word of no category that is a
\* skill, a practical, a social and a creative keyword in capitals, and the
\* empty string
InterestWords ==
    {"mathematics", "physics", "Engineering", "Communication", "Design", ""}

ProbeWords == {"mathematics", "physics", "Communication"}

\* Dict[str, str] locations: both keys, one key, no key; matching and not
EmptyDict == [k \in {} |-> ""]
Locations ==
    {[state |-> "Delhi", city |-> "New Delhi"],
     [state |-> "Goa", city |-> "New Delhi"],
     [state |-> "Delhi"],
     [state |-> "Goa", city |-> "Panaji"],
     EmptyDict}

ProbeLocations == {[state |-> "Delhi", city |-> "New Delhi"], EmptyDict}

ClassLevels == {"10", "12"}

RecommendationTypes == {"stream", "career", "college", "scholarship", "Stream"}

ProbeTypes == {"stream", "career", "college", "scholarship"}

\* The fields of UserProfile the engine reads; user_id, the names, stream and
\* quiz_responses are validated and never read.
UserProfiles ==
    [class_level : ClassLevels,
     location : Locations,
     interests : SeqsUpTo(InterestWords, MaxInterests)]

RecommendationRequests ==
    [endpoint : {"POST /recommendations"},
     user_profile : UserProfiles,
     recommendation_type : RecommendationTypes]

ProbeRequests ==
    [endpoint : {"POST /recommendations"},
     user_profile : [class_level : {"10"},
                     location : ProbeLocations,
                     interests : SeqsUpTo(ProbeWords, MaxProbeInterests)],
     recommendation_type : ProbeTypes]

AnalyzeRequests ==
    [endpoint : {"POST /analyze-interests"},
     interests : SeqsUpTo(InterestWords, MaxInterests)]

PlainRequests ==
    [endpoint : {"GET /", "GET /health", "GET /career-pathways", "GET /colleges"}]

Requests == RecommendationRequests \cup AnalyzeRequests \cup PlainRequests

----------------------------------------------------------------------------
(* The application *)

\* recommendation_engine = RecommendationEngine() at import
Init ==
    /\ career_pathways = SAMPLE_CAREER_PATHWAYS
    /\ colleges = SAMPLE_COLLEGES
    /\ inflight = NoRequest
    /\ response = NoResponse
    /\ now = 0
    /\ pinned = NoPin

Idle == inflight = NoRequest

Serving(endpoint) ==
    /\ inflight.endpoint = endpoint
    /\ response = NoResponse

\* a client's request reaches the server
Arrive ==
    /\ Idle
    /\ \E req \in Requests : inflight' = req
    /\ UNCHANGED <<career_pathways, colleges, response, now, pinned>>

\* a client's request of the repeated-request runs reaches the server
ArriveProbe ==
    /\ Idle
    /\ \E req \in ProbeRequests : inflight' = req
    /\ UNCHANGED <<career_pathways, colleges, response, now, pinned>>

\* time passes
Tick ==
    /\ now < MaxClock
    /\ now' = now + 1
    /\ UNCHANGED <<career_pathways, colleges, inflight, response, pinned>>

\* the client receives the response
Deliver ==
    /\ response # NoResponse
    /\ inflight' = NoRequest
    /\ response' = NoResponse
    /\ UNCHANGED <<career_pathways, colleges, now, pinned>>

Ok(body) == [status |-> 200, body |-> body]

\* FastAPI's answer to an HTTPException that leaves a handler
ErrorResponse(exc) == [status |-> exc.status_code, detail |-> exc.detail]

\* str(e) of an HTTPException: Starlette's __str__ gives
\* "<status_code>: <detail>".  (A Starlette that predates __str__ gives the
\* empty string, the exception being built with keyword arguments only; the
\* status of the answer is the same.)
StrOfHTTPException(exc) == ToString(exc.status_code) \o ": " \o exc.detail

\* @app.get("/")
root ==
    /\ Serving("GET /")
    /\ response' = Ok([message |-> "EduNiti AI Recommendation Engine",
                       version |-> "1.0.0"])
    /\ UNCHANGED <<career_pathways, colleges, inflight, now, pinned>>

\* @app.get("/health")
health_check ==
    /\ Serving("GET /health")
    /\ response' = Ok([status |-> "healthy", timestamp |-> now])
    /\ UNCHANGED <<career_pathways, colleges, inflight, now, pinned>>

\* What leaves the try block of get_recommendations: the response, or the
\* exception the except clause raises in place of the one it caught
\* (HTTPException is an Exception, so the 400 of the engine is caught too).
RecommendationsOutcome(out) ==
    IF out.raised
    THEN ErrorResponse(HTTPException(500, StrOfHTTPException(out.exc)))
    ELSE Ok(out.ret)

\* The observer's note of whether another request was served since the
\* exchange it keeps.
Observed(pin, request) ==
    IF pin.pinned /\ request # pin.request
    THEN [pin EXCEPT !.others = TRUE]
    ELSE pin

\* @app.post("/recommendations")
get_recommendations ==
    /\ Serving("POST /recommendations")
    /\ \E out \in {generate_recommendations(
                      RecommendationEngine(career_pathways, colleges), inflight, now)} :
           /\ response' = RecommendationsOutcome(out)
           /\ career_pathways' = out.self.career_pathways
           /\ colleges' = out.self.colleges
    /\ pinned' = Observed(pinned, inflight)
    /\ UNCHANGED <<inflight, now>>

\* @app.get("/career-pathways")
get_career_pathways ==
    /\ Serving("GET /career-pathways")
    /\ response' = Ok([career_pathways |-> career_pathways])
    /\ UNCHANGED <<career_pathways, colleges, inflight, now, pinned>>

\* @app.get("/colleges")
get_colleges ==
    /\ Serving("GET /colleges")
    /\ response' = Ok([colleges |-> colleges])
    /\ UNCHANGED <<career_pathways, colleges, inflight, now, pinned>>

\* @app.post("/analyze-interests")
analyze_interests ==
    /\ Serving("POST /analyze-interests")
    /\ response' = Ok([interest_scores |-> analyze_user_interests(inflight.interests)])
    /\ UNCHANGED <<career_pathways, colleges, inflight, now, pinned>>

\* An observer keeps one /recommendations exchange to compare later ones with.
Pin ==
    /\ pinned = NoPin
    /\ inflight.endpoint = "POST /recommendations"
    /\ response # NoResponse
    /\ pinned' = [pinned |-> TRUE, request |-> inflight, response |-> response,
                  others |-> FALSE]
    /\ UNCHANGED <<career_pathways, colleges, inflight, response, now>>

Next ==
    \/ Arrive
    \/ Tick
    \/ root
    \/ health_check
    \/ get_recommendations
    \/ get_career_pathways
    \/ get_colleges
    \/ analyze_interests
    \/ Deliver

Spec == Init /\ [][Next]_vars

\* Runs in which an observer compares repeated requests.
NextRepeat ==
    \/ ArriveProbe
    \/ Tick
    \/ get_recommendations
    \/ Deliver
    \/ Pin

SpecRepeat == Init /\ [][NextRepeat]_vars

----------------------------------------------------------------------------
(* Vocabulary of the properties *)

\* the request in flight has been answered
Served(endpoint) == inflight.endpoint = endpoint /\ response # NoResponse

\* a POST /recommendations request has been answered
Answered == Served("POST /recommendations")

\* ... with a RecommendationResponse of the given type
AnsweredOk(type) ==
    /\ Answered
    /\ inflight.recommendation_type = type
    /\ response.status = 200

Recs == response.body.recommendations

StreamNames == <<"science", "engineering", "medical", "arts", "commerce">>

\* place of a stream in the declaration order
DeclarationIndex(stream) == CHOOSE i \in 1..Len(StreamNames) : StreamNames[i] = stream

Half == Rat(1, 2)
ConfidenceHigh == Rat(8, 10)
ConfidenceLow == Rat(3, 10)

\* the entries of seq at the indices in I, in ascending index order
Subsequence(seq, I) ==
    [p \in 1..Cardinality(I) |->
        seq[CHOOSE i \in I : Cardinality({j \in I : j < i}) = p - 1]]

----------------------------------------------------------------------------
(* C1 *)

\* C1: a POST /recommendations request whose type is none of "stream",
\* "career", "college" is answered with status 400 and the detail
\* "Invalid recommendation type", whatever the profile.
C1_InvalidTypeIs400 ==
    (Answered /\ inflight.recommendation_type \notin {"stream", "career", "college"})
    => (response.status = 400 /\ response.detail = "Invalid recommendation type")

----------------------------------------------------------------------------
(* C2 *)

C2_Request ==
    /\ Answered
    /\ inflight.recommendation_type = "stream"
    /\ inflight.user_profile.interests = <<"mathematics", "physics">>
    /\ inflight.user_profile.class_level = "10"

\* the part of C2 that does not depend on the value of the technical score
C2_Shape ==
    /\ response.status = 200
    /\ Len(Recs) = 3
    /\ analyze_user_interests(inflight.user_profile.interests)["analytical"] = Zero
    /\ Recs[1].stream = "science"
    /\ Recs[2].stream = "engineering"
    /\ Recs[1].confidence_score = Recs[2].confidence_score
    /\ RatLess(Recs[3].confidence_score, Recs[2].confidence_score)

\* C2 as stated: for type "stream", interests ["mathematics", "physics"] and
\* class level "10" the list has 3 items, technical is 1.0 and analytical 0,
\* and science and engineering tie at the top (at technical + 0 = 1.0),
\* science first.
C2_TechnicalIsOne ==
    C2_Request =>
        /\ C2_Shape
        /\ analyze_user_interests(inflight.user_profile.interests)["technical"] = One
        /\ Recs[1].confidence_score = One

\* C2 amended: for type "stream", interests ["mathematics", "physics"] and
\* class level "10" the list has 3 items, technical is 0.5 (only "mathematics"
\* contains a technical keyword) and analytical 0, and science and engineering
\* tie at the top (at 0.5), science first.
C2_TechnicalIsHalf ==
    C2_Request =>
        /\ C2_Shape
        /\ analyze_user_interests(inflight.user_profile.interests)["technical"] = Half
        /\ Recs[1].confidence_score = Half

C2_Witness == C2_Request /\ response.status = 200 /\ Len(Recs) = 3

----------------------------------------------------------------------------
(* C3 *)

\* C3: every successful response of the dispatcher has confidence_score 0.8
\* exactly when its list is not empty, 0.3 exactly when it is empty, and no
\* other value.
C3_ConfidenceBinary ==
    (Answered /\ response.status = 200) =>
        /\ inflight.recommendation_type \in {"stream", "career", "college"}
        /\ response.body.confidence_score \in {ConfidenceHigh, ConfidenceLow}
        /\ (response.body.confidence_score = ConfidenceHigh) <=> (Len(Recs) > 0)
        /\ (response.body.confidence_score = ConfidenceLow) <=> (Len(Recs) = 0)

C3_Witness ==
    /\ AnsweredOk("career")
    /\ Len(Recs) > 0
    /\ response.body.confidence_score = ConfidenceHigh

----------------------------------------------------------------------------
(* C4 *)

\* C4: for every profile the Stream Scorer returns exactly 3 entries, of
\* distinct streams among the five, in non-increasing score order, streams of
\* equal score in their declaration order.
C4_StreamsRanked ==
    AnsweredOk("stream") =>
        /\ Len(Recs) = 3
        /\ \A i \in 1..Len(Recs) :
              \E k \in 1..Len(StreamNames) : Recs[i].stream = StreamNames[k]
        /\ \A i, j \in 1..Len(Recs) :
              i < j =>
                /\ Recs[i].stream # Recs[j].stream
                /\ RatLeq(Recs[j].confidence_score, Recs[i].confidence_score)
                /\ (Recs[i].confidence_score = Recs[j].confidence_score
                      => DeclarationIndex(Recs[i].stream) < DeclarationIndex(Recs[j].stream))

\* the sort moved streams (medical to the top) and left a tie in declaration order
C4_Witness ==
    /\ AnsweredOk("stream")
    /\ Len(inflight.user_profile.interests) > 0
    /\ Recs[1].stream = "medical"
    /\ Recs[2].stream = "arts"
    /\ Recs[1].confidence_score = Recs[2].confidence_score
    /\ RatLess(Zero, Recs[1].confidence_score)

----------------------------------------------------------------------------
(* C5 *)

\* number of skills that contain some interest, case-insensitively
MatchedSkills(skills, interests) ==
    Cardinality({k \in 1..Len(skills) :
        \E i \in 1..Len(interests) : Contains(Lower(skills[k]), Lower(interests[i]))})

\* entry is the catalog record career with the match score of the profile
IsScored(entry, career, interests) ==
    /\ DOMAIN entry = (DOMAIN career) \cup {"match_score"}
    /\ \A f \in DOMAIN career : entry[f] = career[f]
    /\ entry.match_score =
          Rat(MatchedSkills(career.skills_required, interests), Len(career.skills_required))
    /\ RatLeq(Zero, entry.match_score)
    /\ RatLeq(entry.match_score, One)

\* C5: the Career Scorer returns at most 3 entries, each a catalog pathway of
\* the Stream Scorer's top stream with match_score = matched skills / skills
\* in [0,1], in non-increasing match_score order; no pathway of the top stream
\* gives the empty list.
C5_CareersScored ==
    AnsweredOk("career") =>
        LET interests == inflight.user_profile.interests
            top == get_stream_recommendation(inflight.user_profile)[1].stream
            candidates == {k \in 1..Len(SAMPLE_CAREER_PATHWAYS) :
                              SAMPLE_CAREER_PATHWAYS[k].stream = top}
        IN  /\ Len(Recs) <= 3
            /\ \A i \in 1..Len(Recs) :
                  \E k \in candidates :
                      IsScored(Recs[i], SAMPLE_CAREER_PATHWAYS[k], interests)
            /\ \A i, j \in 1..Len(Recs) :
                  i < j => /\ RatLeq(Recs[j].match_score, Recs[i].match_score)
                           /\ Recs[i].id # Recs[j].id
            /\ (candidates = {}) => (Len(Recs) = 0)

\* the sort put Civil Engineer before Software Engineer
C5_Witness ==
    /\ AnsweredOk("career")
    /\ Len(Recs) = 2
    /\ Recs[1].title = "Civil Engineer"
    /\ Recs[2].title = "Software Engineer"
    /\ RatLess(Recs[2].match_score, Recs[1].match_score)

----------------------------------------------------------------------------
(* C6 *)

\* C6: the College Selector returns, in catalog order, exactly the catalog
\* colleges whose state or city equals the user's (the empty string for a
\* missing key); if there is none it returns the first 3 catalog entries (all
\* of them when the catalog has fewer).  State Delhi, city New Delhi returns
\* both sample colleges.
C6_CollegesSelected ==
    AnsweredOk("college") =>
        LET location == inflight.user_profile.location
            state == IF "state" \in DOMAIN location THEN location["state"] ELSE ""
            city == IF "city" \in DOMAIN location THEN location["city"] ELSE ""
            local == {k \in 1..Len(SAMPLE_COLLEGES) :
                         \/ SAMPLE_COLLEGES[k].location.state = state
                         \/ SAMPLE_COLLEGES[k].location.city = city}
            first3 == {k \in 1..Len(SAMPLE_COLLEGES) : k <= 3}
        IN  /\ (local # {}) => (Recs = Subsequence(SAMPLE_COLLEGES, local))
            /\ (local = {}) => (Recs = Subsequence(SAMPLE_COLLEGES, first3))
            /\ (location = [state |-> "Delhi", city |-> "New Delhi"])
                  => (Recs = SAMPLE_COLLEGES)

\* the fallback, for a location without keys
C6_Witness ==
    /\ AnsweredOk("college")
    /\ DOMAIN inflight.user_profile.location = {}
    /\ Len(Recs) = 2
    /\ Recs[1].name = "Delhi University"
    /\ Recs[2].name = "IIT Delhi"

----------------------------------------------------------------------------
(* C7 *)

CategoryKeywords(c) ==
    interest_categories[CHOOSE i \in 1..Len(interest_categories) :
                            interest_categories[i].category = c].keywords

\* number of interests that contain some keyword once lower-cased
MatchedInterests(interests, keywords) ==
    Cardinality({i \in 1..Len(interests) :
        \E k \in 1..Len(keywords) : Contains(Lower(interests[i]), keywords[k])})

\* C7: the Interest Analyzer answers with a score for each of the five
\* categories, equal to matching interests / interests and so within [0,1];
\* for the empty list it answers with five zeros.
C7_InterestScores ==
    Served("POST /analyze-interests") =>
        /\ response.status = 200
        /\ DOMAIN response.body.interest_scores =
              {"technical", "creative", "social", "analytical", "practical"}
        /\ \A c \in DOMAIN response.body.interest_scores :
              LET score == response.body.interest_scores[c]
                  n == Len(inflight.interests)
              IN  /\ RatLeq(Zero, score) /\ RatLeq(score, One)
                  /\ (n = 0) => (score = Zero)
                  /\ (n > 0) =>
                        (score = Rat(MatchedInterests(inflight.interests,
                                                      CategoryKeywords(c)), n))

\* an interest in capitals counted for its category, another one not counted
C7_Witness ==
    /\ Served("POST /analyze-interests")
    /\ inflight.interests = <<"Engineering", "physics">>
    /\ response.body.interest_scores["practical"] = Half
    /\ response.body.interest_scores["technical"] = Zero

----------------------------------------------------------------------------
(* C8 *)

\* the lists and the confidence scores agree, the timestamps aside
SameOutcome(r1, r2) ==
    /\ r1.status = r2.status
    /\ (r1.status = 200) =>
          /\ r1.body.recommendations = r2.body.recommendations
          /\ r1.body.confidence_score = r2.body.confidence_score

\* C8: a request with the payload of an earlier request gets the earlier
\* list and confidence score, whatever was served before or between them.
C8_Repeatable ==
    (Answered /\ pinned.pinned /\ inflight = pinned.request)
        => SameOutcome(response, pinned.response)

\* a career request repeated at a later time, another request served between
C8_Witness ==
    /\ AnsweredOk("career")
    /\ pinned.pinned
    /\ pinned.others
    /\ inflight = pinned.request
    /\ Len(Recs) > 0
    /\ response.body.generated_at # pinned.response.body.generated_at

----------------------------------------------------------------------------
(* C9 *)

\* C9: after any sequence of requests the two catalogs are what they were at
\* process start; a match_score is on the answer's record, never on the
\* catalog's.
C9_CatalogUnchanged ==
    /\ career_pathways = SAMPLE_CAREER_PATHWAYS
    /\ colleges = SAMPLE_COLLEGES
    /\ \A k \in 1..Len(career_pathways) : "match_score" \notin DOMAIN career_pathways[k]
    /\ Served("GET /career-pathways")
          => (response.body.career_pathways = SAMPLE_CAREER_PATHWAYS)
    /\ Served("GET /colleges") => (response.body.colleges = SAMPLE_COLLEGES)

\* a career answer carrying match scores
C9_Witness ==
    /\ AnsweredOk("career")
    /\ Len(Recs) > 0
    /\ \A i \in 1..Len(Recs) : "match_score" \in DOMAIN Recs[i]
    /\ \E i \in 1..Len(Recs) : RatLess(Zero, Recs[i].match_score)

----------------------------------------------------------------------------
(* C10 *)

\* C10: with the shipped catalog every successful response has a non-empty
\* list and confidence 0.8; the stream list has 3 items, the top stream is
\* one of science, engineering, medical, arts (never commerce), and each of
\* these has a catalog pathway.
C10_NeverEmpty ==
    (Answered /\ response.status = 200) =>
        /\ Len(Recs) > 0
        /\ response.body.confidence_score = ConfidenceHigh
        /\ response.body.confidence_score # ConfidenceLow
        /\ (inflight.recommendation_type = "stream") =>
              /\ Len(Recs) = 3
              /\ Recs[1].stream \in {"science", "engineering", "medical", "arts"}
              /\ \E k \in 1..Len(career_pathways) :
                    career_pathways[k].stream = Recs[1].stream
        /\ (inflight.recommendation_type = "career") =>
              (Recs[1].stream \in {"science", "engineering", "medical", "arts"})

\* a career answer for a profile whose medical, arts and commerce scores tie
C10_Witness ==
    /\ AnsweredOk("career")
    /\ inflight.user_profile.interests = <<"Communication">>
    /\ Len(Recs) = 1
    /\ Recs[1].title = "Doctor"

====
